---------------------------- MODULE Spec2Model ----------------------------
(***************************************************************************)
(* Model of controllers/k8ssandracluster_controller.go: one Reconcile pass *)
(* of K8ssandraClusterReconciler at the granularity of its remote calls,   *)
(* interleaved with the other writers of the same objects (the user        *)
(* editing the K8ssandraCluster, cass-operator writing datacenter status). *)
(* Datacenters are indexed 0..n-1 as in the Go code.                       *)
(***************************************************************************)
EXTENDS Integers, Sequences, FiniteSets, TLC

\* ------------------------------------------------------------------ bounds
MaxDC == 3
MaxPods == 4
MaxRV == 5
MaxStatusRV == 3
InitialSize == 1

\* -------------------------------------------------------- program constants
SeedCap == 3
ClusterErrRequeue == 10
NotReadyRequeue == 15
CreatedRequeue == 15

DCs == 0 .. (MaxDC - 1)
ServerVersions == <<"3.11.10", "4.0.0">>
ClusterName == "demo"

NotFound == [notFound |-> TRUE]
NoHash == <<>>
NoObj == [none |-> TRUE]

VARIABLES
    cluster,    \* the K8ssandraCluster in the local store: NotFound or [datacenters]
    pods,       \* the pods of the datacenters, in list order: [ip, label]
    store,      \* store[k]: NotFound or the CassandraDatacenter k on its remote cluster
    pc,         \* position of the Reconcile pass
    k8ssandra,  \* the pass's DeepCopy of the cluster resource
    i,          \* loop index of Reconcile
    seeds,      \* var seeds []string of Reconcile
    desired,    \* desired datacenter of the current iteration (hash annotation set)
    actual,     \* actual datacenter of the current iteration
    idx,        \* loop index of updateAdditionalSeeds
    dc,         \* datacenter fetched by getDatacenterForTemplate
    result,     \* (ctrl.Result, error) of the last pass
    log         \* events of the current pass, in order

vars == <<cluster, pods, store, pc, k8ssandra, i, seeds, desired, actual, idx, dc,
          result, log>>

\* --------------------------------------------------------------- helpers
RECURSIVE Take(_, _)
Take(s, n) == IF n = 0 \/ s = <<>> THEN <<>> ELSE <<Head(s)>> \o Take(Tail(s), n - 1)

Range(s) == {s[n] : n \in DOMAIN s}

\* PodIP of the m-th pod of datacenter k; the datacenter is recoverable from it.
PodIP(k, m) == 10 * (k + 1) + m
PodOwner(ip) == (ip \div 10) - 1

Result(requeueAfter, err) == [requeueAfter |-> requeueAfter, err |-> err]

\* ---------------------------------------------------- pure functions of the code
\* variant: Size left at its zero value
newDatacenter_NoSize(cname, template, additionalSeeds) ==
    [name |-> template.name,
     clusterName |-> cname,
     size |-> 0,
     serverVersion |-> template.serverVersion,
     additionalSeeds |-> additionalSeeds,
     hostNetwork |-> TRUE,
     hash |-> NoHash,
     resourceVersion |-> 0,
     ready |-> FALSE]

newDatacenter(cname, template, additionalSeeds) ==
    [name |-> template.name,
     clusterName |-> cname,
     size |-> template.size,
     serverVersion |-> template.serverVersion,
     additionalSeeds |-> additionalSeeds,
     hostNetwork |-> TRUE,
     hash |-> NoHash,
     resourceVersion |-> 0,
     ready |-> FALSE]

\* SHA-256 over the deep representation, modelled as an injective encoding of
\* the hashed content (the annotation is attached after hashing).
deepHashString(obj) ==
    <<obj.name, obj.clusterName, obj.size, obj.serverVersion, obj.additionalSeeds,
      obj.hostNetwork>>

\* desired of line 81 with the annotation of line 90
Desired(cname, template, additionalSeeds) ==
    LET d == newDatacenter(cname, template, additionalSeeds)
    IN  [d EXCEPT !.hash = deepHashString(d)]

\* variant: the stored fingerprint is never compared
NeedsUpdate_Never(act, desiredHash) == FALSE

\* variant: the fingerprint comparison dropped
NeedsUpdate_Always(act, desiredHash) == TRUE

\* line 106: !(found && actualHash == desiredHash)
NeedsUpdate(act, desiredHash) == ~(act.hash # NoHash /\ act.hash = desiredHash)

\* lines 108-109: actual = actual.DeepCopy(); desired.DeepCopyInto(actual)
DeepCopyInto(des, act) == des

\* cassandra.DatacenterReady: a predicate over the status of the actual
DatacenterReady(act) == act.ready

\* variant: the loop over the pods without its break
FirstEndpoints_NoCap(items) == items

\* lines 216-223
FirstEndpoints(items) == Take(items, SeedCap)


\* variant: List without the label selector
ListPods_NoLabel(items, name) == items

\* lines 208-214: List with MatchingLabels{DatacenterLabel: dc.Name}
ListPods(items, name) == SelectSeq(items, LAMBDA p : p.label = name)

\* resolveSeedEndpoints on a successful List
resolveSeedEndpoints(items, name) ==
    LET podList == ListPods(items, name)
    IN  FirstEndpoints([n \in DOMAIN podList |-> podList[n].ip])

\* variant: not-found treated like any other error
ClusterFetchFailed_NoNotFound(isNotFound) == Result(ClusterErrRequeue, TRUE)

\* lines 68-73: the result of a failed fetch of the cluster resource
ClusterFetchFailed(isNotFound) ==
    IF isNotFound THEN Result(0, FALSE) ELSE Result(ClusterErrRequeue, TRUE)

\* variant: client.MergeFrom without the optimistic lock
updateAdditionalSeedsForDatacenter_NoLock(fetched, newSeeds) ==
    [resourceVersion |-> 0,
     additionalSeeds |-> fetched.additionalSeeds \o newSeeds,
     changed |-> newSeeds # <<>>]

\* lines 244-249: the optimistic-lock merge patch built from the fetched dc
updateAdditionalSeedsForDatacenter(fetched, newSeeds) ==
    [resourceVersion |-> fetched.resourceVersion,
     additionalSeeds |-> fetched.additionalSeeds \o newSeeds,
     changed |-> newSeeds # <<>>]

\* variant: the error of a call swallowed
CallFailed_Swallowed(outcome) == FALSE

\* `if err != nil { return err }` after a call of the pass
CallFailed(outcome) == outcome # "ok"

\* ------------------------------------------- the remote API server (client calls)
\* Update: a non-empty resourceVersion must match; status is a subresource and is
\* kept; the response carries the stored object.
ServerUpdate(stored, obj) ==
    IF stored = NotFound THEN [outcome |-> "fail", obj |-> stored]
    ELSE IF obj.resourceVersion # 0 /\ obj.resourceVersion # stored.resourceVersion
    THEN [outcome |-> "conflict", obj |-> stored]
    ELSE [outcome |-> "ok",
          obj |-> [obj EXCEPT !.resourceVersion = stored.resourceVersion + 1,
                              !.ready = stored.ready]]

\* Patch: a merge patch replaces the whole additionalSeeds list; the
\* resourceVersion inside the patch is the optimistic lock.
ServerPatch(stored, patch) ==
    IF stored = NotFound THEN [outcome |-> "fail", obj |-> stored]
    ELSE IF patch.resourceVersion # 0 /\ patch.resourceVersion # stored.resourceVersion
    THEN [outcome |-> "conflict", obj |-> stored]
    ELSE IF ~patch.changed THEN [outcome |-> "ok", obj |-> stored]
    ELSE [outcome |-> "ok",
          obj |-> [stored EXCEPT !.additionalSeeds = patch.additionalSeeds,
                                 !.resourceVersion = @ + 1]]

ServerCreate(stored, obj) ==
    IF stored # NotFound THEN [outcome |-> "fail", obj |-> stored]
    ELSE [outcome |-> "ok", obj |-> [obj EXCEPT !.resourceVersion = 1]]

\* variant: seeds = endpoints
appendSeeds_Replace(sd, endpoints) == endpoints

\* line 130: seeds = append(seeds, endpoints...)
appendSeeds(sd, endpoints) == sd \o endpoints

\* line 132: the range [start, end) handed to updateAdditionalSeeds
PropStart == 0
\* variant: the range closed at its end
PropEnd_Inclusive(it) == it + 1
PropEnd(it) == it

\* ------------------------------------------------------------------ log
\* One event of the pass: the call op on datacenter k in iteration iter, whether
\* it let the pass go on (ok), and what was sent or received (val).
Ev(op, k, ok, val) == [op |-> op, dc |-> k, iter |-> i, ok |-> ok, val |-> val]

NumTemplates(c) == Len(c.datacenters)
Template(c, k) == c.datacenters[k + 1]

\* ------------------------------------------------------------------ Init
PodCount(base, k) == (base + k) % (MaxPods + 1)

RECURSIVE PodsFrom(_, _)
PodsFrom(base, k) ==
    IF k = MaxDC THEN <<>>
    ELSE [m \in 1 .. PodCount(base, k) |-> [ip |-> PodIP(k, m), label |-> k]]
         \o PodsFrom(base, k + 1)

\* the pods running on the remote clusters: those of the existing datacenters
LivePods == SelectSeq(pods, LAMBDA p : store[p.label] # NotFound)

Init ==
    /\ \E n \in 0 .. MaxDC :
          cluster = [cluster |-> ClusterName, datacenters |->
                        [k \in 1 .. n |-> [name |-> k - 1, size |-> InitialSize,
                                           serverVersion |-> ServerVersions[1 + (k % 2)]]]]
    /\ \E base \in {1, MaxPods} : pods = PodsFrom(base, 0)
    /\ store = [k \in DCs |-> NotFound]
    /\ pc = "idle"
    /\ k8ssandra = NoObj
    /\ i = 0
    /\ seeds = <<>>
    /\ desired = NoObj
    /\ actual = NoObj
    /\ idx = 0
    /\ dc = NoObj
    /\ result = NoObj
    /\ log = <<>>

\* --------------------------------------------------------------- the pass
\* return from Reconcile: the locals of the pass die
Finish(res, lg) ==
    /\ pc' = "done"
    /\ result' = res
    /\ log' = lg
    /\ k8ssandra' = NoObj
    /\ i' = 0
    /\ seeds' = <<>>
    /\ desired' = NoObj
    /\ actual' = NoObj
    /\ idx' = 0
    /\ dc' = NoObj

\* `return ctrl.Result{}, err`
Abort(lg) == Finish(Result(0, TRUE), lg)

\* the work queue hands out a request while the version counters have room
QueueBudget == \A k \in DCs : store[k] # NotFound => store[k].resourceVersion < MaxRV

\* lines 63-77: fetch the cluster resource, DeepCopy it, enter the loop
GetCluster ==
    /\ pc = "idle"
    /\ UNCHANGED <<cluster, pods, store>>
    /\ \E outcome \in {"ok", "fail"} :
          IF CallFailed(outcome)
          THEN Finish(ClusterFetchFailed(FALSE), <<Ev("getCluster", 0, FALSE, NoObj)>>)
          ELSE IF cluster = NotFound
          THEN Finish(ClusterFetchFailed(TRUE), <<Ev("getCluster", 0, TRUE, NotFound)>>)
          ELSE IF NumTemplates(cluster) = 0
          THEN Finish(Result(0, FALSE), <<Ev("getCluster", 0, TRUE, cluster)>>)
          ELSE /\ pc' = "loop"
               /\ k8ssandra' = cluster
               /\ i' = 0
               /\ seeds' = <<>>
               /\ log' = <<Ev("getCluster", 0, TRUE, cluster)>>
               /\ UNCHANGED <<desired, actual, idx, dc, result>>

\* lines 63-77
StartReconcile == QueueBudget /\ GetCluster

\* variant: the readiness gate dropped
AfterFound_NoGate(act, lg) ==
    /\ pc' = "list"
    /\ actual' = act
    /\ log' = Append(lg, Ev("ready", i, TRUE, act))
    /\ UNCHANGED <<k8ssandra, i, seeds, desired, idx, dc, result>>

\* variant: a datacenter found not ready ends the pass without a revisit
AfterFound_NoRevisit(act, lg) ==
    IF ~DatacenterReady(act)
    THEN Finish(Result(0, FALSE), Append(lg, Ev("ready", i, FALSE, act)))
    ELSE /\ pc' = "list"
         /\ actual' = act
         /\ log' = Append(lg, Ev("ready", i, TRUE, act))
         /\ UNCHANGED <<k8ssandra, i, seeds, desired, idx, dc, result>>

\* lines 117-122: the readiness gate on the actual datacenter
AfterFound(act, lg) ==
    IF ~DatacenterReady(act)
    THEN Finish(Result(NotReadyRequeue, FALSE), Append(lg, Ev("ready", i, FALSE, act)))
    ELSE /\ pc' = "list"
         /\ actual' = act
         /\ log' = Append(lg, Ev("ready", i, TRUE, act))
         /\ UNCHANGED <<k8ssandra, i, seeds, desired, idx, dc, result>>

\* lines 80-106 and 136-146: build desired, resolve the client, Get the actual
LoopStep ==
    /\ pc = "loop"
    /\ UNCHANGED <<cluster, pods, store>>
    /\ LET des == Desired(k8ssandra.cluster, Template(k8ssandra, i), seeds)
           lg0 == Append(log, Ev("desired", i, TRUE, des))
       IN \E c \in {"ok", "fail", "nil"} :
            IF CallFailed(c) THEN Abort(Append(lg0, Ev("getClient", i, FALSE, c)))
            ELSE LET lg1 == Append(lg0, Ev("getClient", i, TRUE, c))
                 IN \E g \in {"ok", "fail"} :
                      IF CallFailed(g) THEN Abort(Append(lg1, Ev("get", i, FALSE, NoObj)))
                      ELSE IF store[i] = NotFound
                      THEN /\ pc' = "create"
                           /\ desired' = des
                           /\ log' = Append(lg1, Ev("get", i, TRUE, NotFound))
                           /\ UNCHANGED <<k8ssandra, i, seeds, actual, idx, dc, result>>
                      ELSE LET lg2 == Append(lg1, Ev("get", i, TRUE, store[i]))
                           IN IF NeedsUpdate(store[i], des.hash)
                              THEN /\ pc' = "update"
                                   /\ desired' = des
                                   /\ actual' = DeepCopyInto(des, store[i])
                                   /\ log' = lg2
                                   /\ UNCHANGED <<k8ssandra, i, seeds, idx, dc, result>>
                              ELSE AfterFound(store[i], lg2)

\* lines 138-142: remoteClient.Create(ctx, &desired)
DoCreate ==
    /\ pc = "create"
    /\ UNCHANGED <<cluster, pods>>
    /\ \E outcome \in {"ok", "fail"} :
          LET r == IF outcome = "ok" THEN ServerCreate(store[i], desired)
                   ELSE [outcome |-> "fail", obj |-> store[i]]
              lg == Append(log, Ev("create", i, r.outcome = "ok", desired))
          IN /\ store' = [store EXCEPT ![i] = r.obj]
             /\ IF CallFailed(r.outcome) THEN Abort(lg)
                ELSE Finish(Result(CreatedRequeue, FALSE), lg)

\* lines 111-115: remoteClient.Update(ctx, actual), then the readiness gate
DoUpdate ==
    /\ pc = "update"
    /\ UNCHANGED <<cluster, pods>>
    /\ \E outcome \in {"ok", "fail"} :
          LET r == IF outcome = "ok" THEN ServerUpdate(store[i], actual)
                   ELSE [outcome |-> "fail", obj |-> store[i]]
              lg == Append(log, Ev("update", i, r.outcome = "ok", actual))
          IN /\ store' = [store EXCEPT ![i] = r.obj]
             /\ IF CallFailed(r.outcome) THEN Abort(lg)
                ELSE AfterFound(r.obj, lg)

\* end of one iteration of the loop of line 80
NextIteration(lg, sd) ==
    IF i + 1 < NumTemplates(k8ssandra)
    THEN /\ pc' = "loop"
         /\ i' = i + 1
         /\ seeds' = sd
         /\ desired' = NoObj
         /\ actual' = NoObj
         /\ idx' = 0
         /\ dc' = NoObj
         /\ log' = lg
         /\ UNCHANGED <<k8ssandra, result>>
    ELSE Finish(Result(0, FALSE), lg)

\* lines 124-135: resolveSeedEndpoints, seeds = append(seeds, endpoints...),
\* and the entry of updateAdditionalSeeds(ctx, k8ssandra, seeds, 0, i)
DoList ==
    /\ pc = "list"
    /\ UNCHANGED <<cluster, pods, store>>
    /\ \E outcome \in {"ok", "fail"} :
          IF CallFailed(outcome) THEN Abort(Append(log, Ev("list", i, FALSE, <<>>)))
          ELSE LET endpoints == resolveSeedEndpoints(LivePods, actual.name)
                   lg == Append(log, Ev("list", i, TRUE, endpoints))
               IN IF PropStart < PropEnd(i)
                  THEN /\ pc' = "propGet"
                       /\ seeds' = appendSeeds(seeds, endpoints)
                       /\ idx' = PropStart
                       /\ log' = lg
                       /\ UNCHANGED <<k8ssandra, i, desired, actual, dc, result>>
                  ELSE NextIteration(lg, appendSeeds(seeds, endpoints))

\* lines 230-233 and 254-268: getDatacenterForTemplate(ctx, k8ssandra, idx)
PropGet ==
    /\ pc = "propGet"
    /\ UNCHANGED <<cluster, pods, store>>
    /\ \E c \in {"ok", "fail"} :
          IF CallFailed(c) THEN Abort(Append(log, Ev("getClient", idx, FALSE, c)))
          ELSE LET lg1 == Append(log, Ev("getClient", idx, TRUE, c))
               IN \E g \in {"ok", "fail"} :
                    IF CallFailed(g) \/ store[idx] = NotFound
                    THEN Abort(Append(lg1, Ev("get", idx, FALSE, NoObj)))
                    ELSE /\ pc' = "propPatch"
                         /\ dc' = store[idx]
                         /\ log' = Append(lg1, Ev("get", idx, TRUE, store[idx]))
                         /\ UNCHANGED <<k8ssandra, i, seeds, desired, actual, idx, result>>

\* lines 235-237 and 243-252: the conditional patch of one earlier datacenter
PropPatch ==
    /\ pc = "propPatch"
    /\ UNCHANGED <<cluster, pods>>
    /\ \E outcome \in {"ok", "fail"} :
          LET patch == updateAdditionalSeedsForDatacenter(dc, seeds)
              r == IF outcome = "ok" THEN ServerPatch(store[idx], patch)
                   ELSE [outcome |-> "fail", obj |-> store[idx]]
              lg == Append(log, Ev("patch", idx, r.outcome = "ok",
                                   [outcome |-> r.outcome] @@ patch))
          IN /\ store' = [store EXCEPT ![idx] = r.obj]
             /\ IF CallFailed(r.outcome) THEN Abort(lg)
                ELSE IF idx + 1 < PropEnd(i)
                THEN /\ pc' = "propGet"
                     /\ idx' = idx + 1
                     /\ dc' = NoObj
                     /\ log' = lg
                     /\ UNCHANGED <<k8ssandra, i, seeds, desired, actual, result>>
                ELSE NextIteration(lg, seeds)

\* the result goes back to the work queue, which may invoke Reconcile again
IsRetryAfterResult == pc = "done" /\ ~result.err /\ result.requeueAfter > 0

Return ==
    /\ pc = "done"
    /\ pc' = "idle"
    /\ result' = NoObj
    /\ log' = <<>>
    /\ UNCHANGED <<cluster, pods, store, k8ssandra, i, seeds, desired, actual, idx, dc>>

\* ------------------------------------------------------------ other writers
\* (a write made while a finished pass is being returned is the same write made
\* once the pass has returned)
\* cass-operator (or any other writer) writes the status of datacenter k
StatusWrite(k) ==
    /\ pc # "done"
    /\ store[k] # NotFound
    /\ store[k].resourceVersion < MaxStatusRV
    /\ store' = [store EXCEPT ![k].ready = ~@, ![k].resourceVersion = @ + 1]
    /\ UNCHANGED <<cluster, pods, pc, k8ssandra, i, seeds, desired, actual, idx, dc,
                   result, log>>

\* the user scales one template of a cluster of initial sizes up; a pass works
\* on its own DeepCopy (line 75), so an edit made during a pass is the same edit
\* made after it
EditTemplate(k) ==
    /\ pc = "idle"
    /\ cluster # NotFound
    /\ k < NumTemplates(cluster)
    /\ \A t \in 0 .. (NumTemplates(cluster) - 1) : Template(cluster, t).size = InitialSize
    /\ cluster' = [cluster EXCEPT !.datacenters[k + 1].size = @ + 1]
    /\ UNCHANGED <<pods, store, pc, k8ssandra, i, seeds, desired, actual, idx, dc,
                   result, log>>

\* the user deletes the cluster resource
DeleteCluster ==
    /\ pc = "idle"
    /\ cluster # NotFound
    /\ cluster' = NotFound
    /\ UNCHANGED <<pods, store, pc, k8ssandra, i, seeds, desired, actual, idx, dc,
                   result, log>>

Next ==
    \/ StartReconcile
    \/ LoopStep
    \/ DoCreate
    \/ DoUpdate
    \/ DoList
    \/ PropGet
    \/ PropPatch
    \/ Return
    \/ \E k \in DCs : StatusWrite(k)
    \/ \E k \in DCs : EditTemplate(k)
    \/ DeleteCluster

Spec == Init /\ [][Next]_vars


\* ----------------------------------------------- the pass under a fair queue
\* The work queue invokes Reconcile again after every RetryAfter and only then;
\* no remote call fails; each created datacenter becomes ready and stays ready.
NoFailure == \A n \in 1 .. Len(log) : log[n].op # "ready" => log[n].ok

AllReady == \A k \in DCs : store[k] # NotFound => store[k].ready

\* a request is handed out while the counters have room, and always once
\* every existing datacenter is ready
LiveStart == (QueueBudget \/ AllReady) /\ GetCluster

LivePass ==
    \/ LiveStart
    \/ LoopStep
    \/ DoCreate
    \/ DoUpdate
    \/ DoList
    \/ PropGet
    \/ PropPatch

LiveReturn == IsRetryAfterResult /\ Return

\* cass-operator brings datacenter k up
BecomeReady(k) ==
    /\ store[k] # NotFound
    /\ ~store[k].ready
    /\ store' = [store EXCEPT ![k].ready = TRUE, ![k].resourceVersion = @ + 1]
    /\ UNCHANGED <<cluster, pods, pc, k8ssandra, i, seeds, desired, actual, idx, dc,
                   result, log>>

LiveNext ==
    \/ LiveStart /\ NoFailure'
    \/ LoopStep /\ NoFailure'
    \/ DoCreate /\ NoFailure'
    \/ DoUpdate /\ NoFailure'
    \/ DoList /\ NoFailure'
    \/ PropGet /\ NoFailure'
    \/ PropPatch /\ NoFailure'
    \/ LiveReturn
    \/ \E k \in DCs : BecomeReady(k)
    \/ \E k \in DCs : EditTemplate(k)

LiveSpec ==
    /\ Init
    /\ [][LiveNext]_vars
    /\ WF_vars(LivePass /\ NoFailure')
    /\ WF_vars(LiveReturn)
    /\ \A k \in DCs : WF_vars(BecomeReady(k))

\* ------------------------------------------------------------ reading the log
Done == Result(0, FALSE)
IsRetryAfter(res) == ~res.err /\ res.requeueAfter > 0
IsError(res) == res.err /\ res.requeueAfter = 0

CallOps == {"getCluster", "getClient", "get", "create", "update", "list", "patch"}
WriteOps == {"create", "update", "patch"}
LogIdx == DOMAIN log
Last == log[Len(log)]

\* the Get of iteration k found datacenter k
FoundInPass(n) ==
    /\ log[n].op = "get"
    /\ log[n].iter = log[n].dc
    /\ log[n].ok
    /\ log[n].val # NotFound

\* datacenter k was found carrying the fingerprint of its desired form of this pass
MatchedInPass(k) ==
    \E b \in LogIdx :
        /\ FoundInPass(b)
        /\ log[b].dc = k
        /\ log[b - 2].op = "desired"
        /\ log[b - 2].dc = k
        /\ log[b].val.hash = log[b - 2].val.hash

\* the template of datacenter k the pass works from
PassTemplate(k) == Template(log[1].val, k)

\* C1 (as stated): a datacenter found with the fingerprint of its desired form
\* receives no create, no update and no patch in that pass.
C1_NoWriteAtAll ==
    \A k \in DCs :
        MatchedInPass(k) => ~\E n \in LogIdx : log[n].op \in WriteOps /\ log[n].dc = k

\* C1 (amended): a datacenter found with the fingerprint of its desired form
\* receives no create and no update in that pass; the only writes it receives
\* are the propagation patches of the later datacenters found ready.
C1_NoCreateNoUpdate ==
    \A k \in DCs :
        MatchedInPass(k) =>
            \A n \in LogIdx :
                (log[n].op \in WriteOps /\ log[n].dc = k)
                    => (log[n].op = "patch" /\ log[n].iter > k)

C1_Witness ==
    /\ pc = "done"
    /\ result = Done
    /\ MatchedInPass(0) /\ MatchedInPass(1) /\ MatchedInPass(2)
    /\ \E n \in LogIdx : log[n].op = "patch" /\ log[n].dc = 0 /\ log[n].ok

\* C2: the additionalSeeds written by a create or an update of datacenter k hold
\* only endpoints listed earlier in the same pass from datacenters before k.
C2_SeedsFromEarlierOnly ==
    \A n \in LogIdx :
        log[n].op \in {"create", "update"} =>
            \A e \in Range(log[n].val.additionalSeeds) :
                /\ PodOwner(e) < log[n].dc
                /\ \E m \in 1 .. (n - 1) :
                      /\ log[m].op = "list"
                      /\ log[m].ok
                      /\ log[m].dc = PodOwner(e)
                      /\ e \in Range(log[m].val)

C2_Witness ==
    \E n, m \in LogIdx :
        /\ log[n].op = "create" /\ log[n].dc = 2 /\ log[n].ok
        /\ Len(log[n].val.additionalSeeds) > 1
        /\ log[m].op = "update" /\ log[m].dc = 1 /\ log[m].ok
        /\ log[m].val.additionalSeeds # <<>>

\* the datacenters patched by the propagation step of iteration it
PatchedBy(it) ==
    {log[n].dc : n \in {m \in LogIdx : log[m].op = "patch" /\ log[m].iter = it /\ log[m].ok}}

PatchCount(it) == Cardinality({m \in LogIdx : log[m].op = "patch" /\ log[m].iter = it})

\* the propagation step of iteration it has run to its end
PropagationComplete(it) ==
    /\ \E n \in LogIdx : log[n].op = "list" /\ log[n].iter = it /\ log[n].ok
    /\ \/ \E n \in LogIdx : log[n].iter > it
       \/ pc = "done" /\ result = Done

\* C3: the propagation step of iteration it patches datacenters below it only,
\* and once it has run to its end it has patched each of 0..it-1 exactly once.
C3_PatchesExactlyEarlier ==
    /\ \A n \in LogIdx : log[n].op = "patch" => log[n].dc < log[n].iter
    /\ \A it \in DCs :
          PropagationComplete(it) =>
              /\ PatchedBy(it) = 0 .. (it - 1)
              /\ PatchCount(it) = it

C3_Witness ==
    /\ pc = "done"
    /\ result = Done
    /\ PatchedBy(2) = {0, 1}
    /\ PatchedBy(1) = {0}


\* C4: a patch whose fetched version is no longer the stored one is rejected:
\* the stored datacenter stays as the other writer left it, the pass ends with
\* that error, and the datacenter was patched at most this once in the step.
C4_ConflictRejected ==
    [][(/\ pc = "propPatch"
        /\ store[idx] # NotFound
        /\ store[idx].resourceVersion # dc.resourceVersion
        /\ pc' # "propPatch")
       => (/\ store' = store
           /\ pc' = "done"
           /\ IsError(result')
           /\ Len(log') = Len(log) + 1
           /\ log'[Len(log')].op = "patch"
           /\ ~log'[Len(log')].ok
           /\ Cardinality({n \in DOMAIN log' : /\ log'[n].op = "patch"
                                               /\ log'[n].dc = idx
                                               /\ log'[n].iter = i}) = 1)]_vars

C4_Witness ==
    /\ pc = "done"
    /\ IsError(result)
    /\ Last.op = "patch"
    /\ Last.val.outcome = "conflict"
    /\ store[Last.dc].resourceVersion # Last.val.resourceVersion
    /\ store[Last.dc].additionalSeeds # Last.val.additionalSeeds

\* C5 (as stated): the object handed to Update carries the desired spec and the
\* resourceVersion the Get of the same iteration returned.
C5_UpdateCarriesFetchedVersion ==
    \A n \in LogIdx :
        log[n].op = "update" =>
            \E m \in 1 .. (n - 1) :
                /\ FoundInPass(m)
                /\ log[m].dc = log[n].dc
                /\ log[n].val.size = PassTemplate(log[n].dc).size
                /\ log[n].val.resourceVersion = log[m].val.resourceVersion

\* C6 (as stated): a finished pass returns Done, RetryAfter or Error, never an
\* error together with a positive revisit delay.
C6_ResultShape ==
    pc = "done" => (result = Done \/ IsRetryAfter(result) \/ IsError(result))

\* C7: a failed call is the last call of its pass, the pass ends with an error,
\* and a pass ends with an error only on a failed call.
C7_HardErrorAborts ==
    /\ \A n \in LogIdx :
          (log[n].op \in CallOps /\ ~log[n].ok)
              => (n = Len(log) /\ pc = "done" /\ result.err)
    /\ (pc = "done" /\ result.err)
          => (log # <<>> /\ Last.op \in CallOps /\ ~Last.ok)

C7_Witness ==
    /\ pc = "done"
    /\ result.err
    /\ Last.op = "patch"
    /\ ~Last.ok
    /\ Last.iter = 1
    /\ NumTemplates(log[1].val) = 3

\* C8: a pass whose fetch of the cluster resource answers not-found returns
\* Done and issues no other call.
C8_DeletedClusterIsDone ==
    (log # <<>> /\ log[1].val = NotFound)
        => (Len(log) = 1 /\ pc = "done" /\ result = Done)

C8_Witness ==
    /\ pc = "done"
    /\ log[1].val = NotFound
    /\ result = Done
    /\ \E k \in DCs : store[k] # NotFound

\* C9: a not-found answer to the Get of iteration k is followed by one create of
\* datacenter k and nothing else; the created object takes size, serverVersion
\* and cluster name from the template, has host networking on and carries the
\* digest of its content; a successful create returns RetryAfter.
C9_CreateOnNotFound ==
    \A n \in LogIdx :
        (log[n].op = "get" /\ log[n].iter = log[n].dc /\ log[n].ok /\ log[n].val = NotFound)
            => \/ pc = "create" /\ n = Len(log)
               \/ /\ pc = "done"
                  /\ Len(log) = n + 1
                  /\ Last.op = "create"
                  /\ Last.dc = log[n].dc
                  /\ Last.val.size = PassTemplate(Last.dc).size
                  /\ Last.val.serverVersion = PassTemplate(Last.dc).serverVersion
                  /\ Last.val.clusterName = log[1].val.cluster
                  /\ Last.val.hostNetwork
                  /\ Last.val.hash # NoHash
                  /\ Last.val.hash = deepHashString(Last.val)
                  /\ Last.ok => (IsRetryAfter(result) /\ store[Last.dc] # NotFound)
                  /\ ~Last.ok => IsError(result)

C9_Witness ==
    /\ pc = "done"
    /\ Last.op = "create"
    /\ Last.ok
    /\ Last.dc = 1
    /\ Last.val.size = InitialSize + 1
    /\ Last.val.additionalSeeds # <<>>
    /\ IsRetryAfter(result)

\* C10: a datacenter found not ready ends the pass with RetryAfter and no error;
\* the pass lists no pods of it, patches nothing for it and calls nothing for a
\* later datacenter.
C10_NotReadyStops ==
    \A n \in LogIdx :
        (log[n].op = "ready" /\ ~log[n].val.ready)
            => /\ n = Len(log)
               /\ pc = "done"
               /\ result = Result(NotReadyRequeue, FALSE)
               /\ IsRetryAfter(result)
               /\ ~\E m \in LogIdx :
                      \/ log[m].op \in {"list", "patch"} /\ log[m].iter = log[n].dc
                      \/ log[m].iter > log[n].dc

C10_Witness ==
    /\ pc = "done"
    /\ Len(log) > 2
    /\ Last.op = "ready"
    /\ ~Last.val.ready
    /\ Last.dc = 1
    /\ log[Len(log) - 1].op = "update"
    /\ log[Len(log) - 1].ok


\* C11 (as stated): the delay returned for a datacenter found not ready is
\* strictly longer than the delay returned after a create.
C11_NotReadyDelayLonger ==
    (pc = "done" /\ Last.op = "ready" /\ ~Last.val.ready)
        => result.requeueAfter > CreatedRequeue

\* the endpoint lists of the successful List calls before position n, in order
RECURSIVE ConcatLists(_, _)
ConcatLists(m, n) ==
    IF m >= n THEN <<>>
    ELSE (IF log[m].op = "list" /\ log[m].ok THEN log[m].val ELSE <<>>)
         \o ConcatLists(m + 1, n)

\* the datacenters listed successfully before position n
ListedBefore(n) == {log[m].dc : m \in {t \in 1 .. (n - 1) : log[t].op = "list" /\ log[t].ok}}

\* C12: a create of datacenter k comes after datacenters 0..k-1 were found ready
\* and listed, carries as additionalSeeds the concatenation of their endpoint
\* lists in order, and a successful create returns RetryAfter.
C12_CreateWithSeedsOfEarlier ==
    \A n \in LogIdx :
        log[n].op = "create" =>
            /\ ListedBefore(n) = 0 .. (log[n].dc - 1)
            /\ log[n].val.additionalSeeds = ConcatLists(1, n)
            /\ \A e \in 1 .. (Len(log[n].val.additionalSeeds) - 1) :
                  PodOwner(log[n].val.additionalSeeds[e])
                      <= PodOwner(log[n].val.additionalSeeds[e + 1])
            /\ (pc = "done" /\ log[n].ok) => IsRetryAfter(result)

C12_Witness ==
    /\ pc = "done"
    /\ IsRetryAfter(result)
    /\ Last.op = "create"
    /\ Last.ok
    /\ Last.dc = 2
    /\ Last.val.additionalSeeds = <<PodIP(0, 1), PodIP(1, 1), PodIP(1, 2)>>

\* every template has its datacenter, ready, with the fingerprint of its desired
\* form (the seeds of the desired form being the endpoints of the earlier ones)
RECURSIVE SeedsBelow(_)
SeedsBelow(k) ==
    IF k = 0 THEN <<>>
    ELSE SeedsBelow(k - 1) \o resolveSeedEndpoints(LivePods, k - 1)

Converged ==
    /\ cluster # NotFound
    /\ NumTemplates(cluster) > 1
    /\ \A k \in 0 .. (NumTemplates(cluster) - 1) :
          /\ store[k] # NotFound
          /\ store[k].ready
          /\ store[k].hash = Desired(cluster.cluster, Template(cluster, k), SeedsBelow(k)).hash

\* C13 (as stated): once every datacenter exists, is ready and carries the
\* matching fingerprint, no step of a pass changes an actual datacenter.
C13_ConvergedPassIsNoOp ==
    [][(Converged /\ log' # log) => store' = store]_vars


AllCreated ==
    /\ cluster # NotFound
    /\ \A k \in 0 .. (NumTemplates(cluster) - 1) : store[k] # NotFound

\* C14: under a queue that invokes Reconcile again after every RetryAfter, with
\* no failing remote call and every created datacenter becoming and staying
\* ready, a pass eventually returns Done with every datacenter created.
C14_EventuallyDone == <>(pc = "done" /\ result = Done /\ AllCreated)

C14_Witness ==
    /\ pc = "done"
    /\ result = Done
    /\ AllCreated
    /\ NumTemplates(cluster) >= 3
    /\ PatchCount(2) = 2


\* the member pods of datacenter k, in listing order
PodsOf(k) == SelectSeq(pods, LAMBDA p : p.label = k)

\* C15: a successful seed discovery returns the addresses of the first
\* min(3, n) members in listing order, for any number n of members; a failed
\* listing yields an error and no endpoints.
C15_FirstThreeInListingOrder ==
    \A n \in LogIdx :
        log[n].op = "list" =>
            IF log[n].ok
            THEN /\ Len(log[n].val) <= 3
                 /\ Len(log[n].val) = IF Len(PodsOf(log[n].dc)) < 3
                                      THEN Len(PodsOf(log[n].dc)) ELSE 3
                 /\ \A t \in 1 .. Len(log[n].val) : log[n].val[t] = PodsOf(log[n].dc)[t].ip
            ELSE /\ log[n].val = <<>>
                 /\ n = Len(log)
                 /\ pc = "done"
                 /\ IsError(result)

C15_Witness ==
    /\ \E n \in LogIdx : /\ log[n].op = "list"
                         /\ log[n].ok
                         /\ Len(PodsOf(log[n].dc)) > 3
                         /\ Len(log[n].val) = 3
    /\ \E n \in LogIdx : /\ log[n].op = "list"
                         /\ log[n].ok
                         /\ Len(PodsOf(log[n].dc)) = 0
                         /\ log[n].val = <<>>

\* what the patch at position n appends to the list it fetched at n - 1
Appended(n) ==
    SubSeq(log[n].val.additionalSeeds,
           Len(log[n - 1].val.additionalSeeds) + 1,
           Len(log[n].val.additionalSeeds))

\* C16 (as stated): what propagation appends to an earlier datacenter in
\* iteration i is the endpoint list discovered from datacenter i in that
\* iteration, and nothing discovered from a lower index.
C16_AppendsOnlyNewSeeds ==
    \A n \in LogIdx :
        log[n].op = "patch" =>
            \A e \in Range(Appended(n)) : PodOwner(e) = log[n].iter

\* the events just before position n are those of a complete iteration k:
\* fetched, observed ready, seeds listed, every earlier datacenter patched
IterationComplete(n, k) ==
    LET p == n - 3 * k
    IN  /\ p - 3 >= 1
        /\ log[p - 3].op \in {"get", "update"}
        /\ log[p - 3].ok
        /\ log[p - 3].dc = k
        /\ log[p - 3].val # NotFound
        /\ log[p - 2].op = "ready"
        /\ log[p - 2].dc = k
        /\ log[p - 2].val.ready
        /\ log[p - 1].op = "list"
        /\ log[p - 1].ok
        /\ log[p - 1].dc = k
        /\ \A j \in 0 .. (k - 1) :
              /\ log[p + 3 * j].op = "getClient"
              /\ log[p + 3 * j].ok
              /\ log[p + 3 * j + 1].op = "get"
              /\ log[p + 3 * j + 1].ok
              /\ log[p + 3 * j + 2].op = "patch"
              /\ log[p + 3 * j + 2].ok
              /\ \A t \in 0 .. 2 : log[p + 3 * j + t].dc = j /\ log[p + 3 * j + t].iter = k

\* C17: the events of a pass come in template order: nothing is done for a
\* datacenter before its own iteration, and the first event of iteration k + 1
\* comes right after datacenter k was fetched, observed ready, listed and the
\* datacenters 0..k-1 were all patched without error.
C17_StrictTemplateOrder ==
    \A n \in LogIdx :
        n >= 2 =>
            /\ log[n].dc <= log[n].iter
            /\ log[n - 1].iter <= log[n].iter
            /\ log[n - 1].iter < log[n].iter =>
                  /\ log[n].iter = log[n - 1].iter + 1
                  /\ log[n].op = "desired"
                  /\ IterationComplete(n, log[n - 1].iter)

C17_Witness ==
    /\ Len(log) > 0
    /\ Last.op = "get"
    /\ Last.iter = 2
    /\ Last.dc = 2
    /\ PatchCount(1) = 1

\* C18: when a pass over an existing cluster resource returns Done, every
\* datacenter of the template list was found, was observed ready, and its
\* stored fingerprint is the one of the desired form computed in the pass.
C18_DoneMeansAllMatched ==
    (pc = "done" /\ result = Done /\ log[1].ok /\ log[1].val # NotFound) =>
        \A k \in 0 .. (NumTemplates(log[1].val) - 1) :
            \E a \in LogIdx :
                /\ log[a].op = "desired"
                /\ log[a].dc = k
                /\ log[a + 2].op = "get"
                /\ log[a + 2].ok
                /\ log[a + 2].val # NotFound
                /\ log[a + 3].op \in {"update", "ready"}
                /\ log[a + 3].ok
                /\ \E b \in {a + 3, a + 4} : log[b].op = "ready" /\ log[b].val.ready
                /\ store[k] # NotFound
                /\ store[k].hash = log[a].val.hash

C18_Witness ==
    /\ pc = "done"
    /\ result = Done
    /\ log[1].ok
    /\ log[1].val # NotFound
    /\ NumTemplates(log[1].val) >= 2
    /\ \E n \in LogIdx : log[n].op = "update" /\ log[n].dc = 1

\* C19 (as stated): the additional seeds of an actual datacenter never contain
\* an endpoint discovered from that datacenter itself.
C19_NoOwnEndpoints ==
    \A k \in DCs :
        store[k] # NotFound =>
            \A e \in Range(store[k].additionalSeeds) : PodOwner(e) # k

\* C20 (as stated): an endpoint held by an actual datacenter is still held by
\* it after every write this controller makes to it.
C20_SeedsNeverLost ==
    [][\A k \in DCs :
          store[k] # NotFound =>
              Range(store[k].additionalSeeds) \subseteq Range(store'[k].additionalSeeds)]_vars

=============================================================================
